---- MODULE Spec2Model ----
(***************************************************************************)
(* A model of dnd35e/concepts.py: the concept types of the rules library   *)
(* (ClassFeature, Progression, ClassLevel, Ability, Race, AbilityScore,    *)
(* Size, Character), each as the state of one object together with the    *)
(* operations a caller can apply to it.  Every object has a specification *)
(* of its own (SpecFeature, SpecClassLevel, ...); the variables of the    *)
(* other objects stay at their idle values there.                         *)
(*                                                                         *)
(* A num.Modifier is modelled by its numeric value (int(modifier)); the    *)
(* operations of dnd35e.numbers and dnd35e.core, which are not part of the *)
(* sources at hand, are modelled from the specification's description.     *)
(***************************************************************************)
EXTENDS Integers, Sequences, FiniteSets, TLC

VARIABLES
    cf_kwargs,      \* ClassFeature: the **progression keyword arguments given
    cf_progression, \* ClassFeature.progression: key -> Ability
    cf_query,       \* <<level>> of the last feature[level], <<>> before any
    cf_result,      \* the outcome of the last feature[level]
    cl_args,        \* Class: the values given to its four Progressions
    cl_class,       \* Class: the _modifiers list of each of its Progressions
    cl_level,       \* ClassLevel.level
    cl_read,        \* the last ClassLevel property read and its outcome
    ab_args,        \* Ability x, y: the constructor arguments of each
    ab,             \* Ability x, y: the fields and feature attributes of each
    ab_last,        \* the last attribute assignment or deletion and its outcome
    race_attrs,     \* Race: the instance attributes that decide its saves
    race_read,      \* the last save property read since the last write
    as_ctor,        \* AbilityScore: the constructor argument of a
    as_heap,        \* the AbilityScore objects: object id -> score
    as_a,           \* the object the name a is bound to
    as_b,           \* the object another reference, taken at the start, holds
    as_last,        \* the last addition: its form, operand, delta and result
    size_args,      \* Size: the constructor arguments
    size_name,      \* Size._name
    size_modifier,  \* Size._modifier
    size_read,      \* the last Size property read and its value
    ch_args,        \* Character: the contents of classes at construction
    ch_heap,        \* the mapping objects: object id -> contents
    ch_classes,     \* Character.classes: the id of the mapping it holds
    srd_pc,         \* legacy catalog: how many of its statements have run
    srd_ns,         \* legacy catalog: the module's names and their objects
    srd_read        \* the last attribute read off an object of the catalog

featureVars    == <<cf_kwargs, cf_progression, cf_query, cf_result>>
classLevelVars == <<cl_args, cl_class, cl_level, cl_read>>
abilityVars    == <<ab_args, ab, ab_last>>
raceVars       == <<race_attrs, race_read>>
scoreVars      == <<as_ctor, as_heap, as_a, as_b, as_last>>
sizeVars       == <<size_args, size_name, size_modifier, size_read>>
characterVars  == <<ch_args, ch_heap, ch_classes>>
catalogVars    == <<srd_pc, srd_ns, srd_read>>

vars == <<featureVars, classLevelVars, abilityVars, raceVars, scoreVars,
          sizeVars, characterVars, catalogVars>>

\* What an operation on one object leaves alone: every other object.
OnlyFeature ==
    UNCHANGED <<classLevelVars, abilityVars, raceVars,
                scoreVars, sizeVars, characterVars,
                catalogVars>>
OnlyClassLevel ==
    UNCHANGED <<featureVars, abilityVars, raceVars,
                scoreVars, sizeVars, characterVars,
                catalogVars>>
OnlyAbility ==
    UNCHANGED <<featureVars, classLevelVars, raceVars,
                scoreVars, sizeVars, characterVars,
                catalogVars>>
OnlyRace ==
    UNCHANGED <<featureVars, classLevelVars, abilityVars,
                scoreVars, sizeVars, characterVars,
                catalogVars>>
OnlyScore ==
    UNCHANGED <<featureVars, classLevelVars, abilityVars,
                raceVars, sizeVars, characterVars,
                catalogVars>>
OnlySize ==
    UNCHANGED <<featureVars, classLevelVars, abilityVars,
                raceVars, scoreVars, characterVars,
                catalogVars>>
OnlyCharacter ==
    UNCHANGED <<featureVars, classLevelVars, abilityVars,
                raceVars, scoreVars, sizeVars,
                catalogVars>>
OnlyCatalog ==
    UNCHANGED <<featureVars, classLevelVars, abilityVars,
                raceVars, scoreVars, sizeVars,
                characterVars>>

----------------------------------------------------------------------------
(* Bounds of the model. *)

MaxLevel == 5          \* the highest level a ClassFeature declares
MaxClassLevels == 4    \* the most values a Progression is given
MaxFeatureValue == 2   \* the highest value given to a feature of an Ability
MaxModifier == 2       \* the largest magnitude of a Race's save Modifier
ScoreSpan == 12        \* how far from 10 an ability score may lie
MaxDelta == 2          \* the largest magnitude added to an ability score
MaxObjects == 2        \* the most AbilityScore objects alive at once
MaxScale == 8          \* the largest magnitude of a Size's scale
MaxHeld == 3           \* the most levels a Character holds in one Class

----------------------------------------------------------------------------
(* Shared helpers. *)

NoResult == [outcome |-> "none"]

\* An Optional value: <<>> is None, <<v>> is v.
None == <<>>
Some(v) == <<v>>

Returned(v) == [outcome |-> "return", value |-> v]
Raised(e)   == [outcome |-> "raise", exc |-> e]

\* The kinds of error the rules library distinguishes: a lookup that finds
\* nothing (no applicable level, an index outside a list, a missing key) is
\* NotFound; a malformed operand is InvalidInput.
ErrorKind(exc) ==
    IF exc \in {"ValueError", "IndexError", "KeyError"}
    THEN "NotFound"
    ELSE "InvalidInput"

\* Python's max() over a non-empty collection of integers.
PyMax(S) == CHOOSE m \in S : \A x \in S : x <= m

----------------------------------------------------------------------------
(* dnd35e.numbers.ordinal relates an integer and its ordinal string: 1 and *)
(* "1st", 2 and "2nd", 3 and "3rd", 4 and "4th", 11 and "11th".  It formats *)
(* an integer as the string; ClassFeature hands it the keyword names       *)
(* ("1st", "5th") and compares the keys it gets with integers, so of a     *)
(* string it gives the integer.  A Python value carries its type; the      *)
(* string "5th" is modelled by its digits and its suffix.                  *)

PyInt(n) == [type |-> "int", value |-> n]

OrdinalSuffix(n) ==
    IF (n % 100) \in 11..13 THEN "th"
    ELSE CASE n % 10 = 1 -> "st"
           [] n % 10 = 2 -> "nd"
           [] n % 10 = 3 -> "rd"
           [] OTHER      -> "th"

OrdinalName(n) == [type |-> "str", digits |-> n, suffix |-> OrdinalSuffix(n)]

ordinal(level) ==
    IF level.type = "int"
    THEN OrdinalName(level.value)
    ELSE PyInt(level.digits)

----------------------------------------------------------------------------
(* ClassFeature *)

Abilities == {"Sneak Attack +1d6", "Sneak Attack +3d6"}

\* ClassFeature.__init__:
\*     self.progression = {num.ordinal(level): ability
\*                         for level, ability in progression.items()}
\* The keys of **progression are the keyword names, which are strings.
ClassFeature_init(progression) ==
    [key \in {ordinal(k) : k \in DOMAIN progression} |->
        progression[CHOOSE k \in DOMAIN progression : ordinal(k) = key]]

\* A lookup whose comparison is strict: feature[5] misses the level-5 Ability.
ClassFeature_getitem_strict(progression, level) ==
    IF \E lvl \in DOMAIN progression : lvl.type # "int"
    THEN Raised("TypeError")
    ELSE LET applicable == {lvl \in DOMAIN progression : lvl.value < level}
         IN  IF applicable = {}
             THEN Raised("ValueError")
             ELSE Returned(progression[
                             PyInt(PyMax({lvl.value : lvl \in applicable}))])

\* A lookup that falls back to the lowest declared level instead of failing.
ClassFeature_getitem_clamped(progression, level) ==
    IF \E lvl \in DOMAIN progression : lvl.type # "int"
    THEN Raised("TypeError")
    ELSE LET applicable == {lvl \in DOMAIN progression : lvl.value <= level}
         IN  IF applicable = {}
             THEN IF DOMAIN progression = {}
                  THEN Raised("ValueError")
                  ELSE Returned(progression[
                         CHOOSE m \in DOMAIN progression :
                            \A x \in DOMAIN progression : m.value <= x.value])
             ELSE Returned(progression[
                             PyInt(PyMax({lvl.value : lvl \in applicable}))])

\* ClassFeature.__getitem__:
\*     level = max(lvl for lvl in self.progression if lvl <= level)
\*     return self.progression[level]
\* lvl <= level between a str key and the int level raises TypeError;
\* max() of an empty sequence raises ValueError.
ClassFeature_getitem(progression, level) ==
    IF \E lvl \in DOMAIN progression : lvl.type # "int"
    THEN Raised("TypeError")
    ELSE LET applicable == {lvl \in DOMAIN progression : lvl.value <= level}
         IN  IF applicable = {}
             THEN Raised("ValueError")
             ELSE Returned(progression[
                             PyInt(PyMax({lvl.value : lvl \in applicable}))])

InitFeature ==
    /\ \E D \in SUBSET (1..MaxLevel) :
         \E f \in [{OrdinalName(d) : d \in D} -> Abilities] :
            /\ cf_kwargs = f
            /\ cf_progression = ClassFeature_init(f)
    /\ cf_query = None
    /\ cf_result = NoResult

\* feature[q]
GetItem ==
    /\ OnlyFeature
    /\ \E q \in 0..(MaxLevel + 1) :
           /\ cf_query' = Some(q)
           /\ cf_result' = ClassFeature_getitem(cf_progression, q)
           /\ UNCHANGED <<cf_kwargs, cf_progression>>

NextFeature == GetItem

IdleFeature ==
    /\ cf_kwargs = <<>>
    /\ cf_progression = <<>>
    /\ cf_query = None
    /\ cf_result = NoResult

\* The levels a ClassFeature was declared with, read off the keyword names.
DeclaredLevels == {k.digits : k \in DOMAIN cf_kwargs}

\* C1: a lookup at a level q that is not below the lowest declared level
\* returns exactly the Ability declared at the highest declared level that
\* does not exceed q.
C1_LookupHighestDeclared ==
    (/\ cf_query # None
     /\ \E d \in DeclaredLevels : d <= cf_query[1])
    => LET q == cf_query[1]
           d == CHOOSE d \in DeclaredLevels :
                    /\ d <= q
                    /\ \A e \in DeclaredLevels : e <= q => e <= d
       IN  cf_result = Returned(cf_kwargs[OrdinalName(d)])

\* Declared at levels 1 and 5 with different Abilities: level 3 gave the
\* level-1 Ability.
C1_Witness ==
    /\ DeclaredLevels = {1, 5}
    /\ cf_kwargs[OrdinalName(1)] # cf_kwargs[OrdinalName(5)]
    /\ cf_query = Some(3)
    /\ cf_result = Returned(cf_kwargs[OrdinalName(1)])

\* C2: a lookup below the lowest declared level, or on a ClassFeature that
\* declares no level, fails with the NotFound kind of error, returns no
\* Ability and leaves the progression table holding what was declared.
C2_LookupBelowLowestFails ==
    (/\ cf_query # None
     /\ \A d \in DeclaredLevels : cf_query[1] < d)
    => /\ cf_result.outcome = "raise"
       /\ ErrorKind(cf_result.exc) = "NotFound"
       /\ DOMAIN cf_progression = {PyInt(d) : d \in DeclaredLevels}
       /\ \A d \in DeclaredLevels :
             cf_progression[PyInt(d)] = cf_kwargs[OrdinalName(d)]

\* Declared from level 2 on, queried at level 1: the lookup failed.
C2_Witness ==
    /\ DeclaredLevels # {}
    /\ \A d \in DeclaredLevels : d >= 2
    /\ cf_query = Some(1)
    /\ cf_result.outcome = "raise"

----------------------------------------------------------------------------
(* Progression, Class, ClassLevel *)

\* num.Modifier(value, modifier_type), by its numeric value; Modifier() is 0.
Modifier(value) == value

\* Progression.__init__: one Modifier per value, in the order given.
Progression_init(values) == [i \in 1..Len(values) |-> Modifier(values[i])]

\* Progression.__getitem__: self._modifiers[item], the indexing of a Python
\* list: from 0, a negative index counting from the end, IndexError outside.
Progression_getitem(modifiers, item) ==
    LET n == Len(modifiers)
    IN  IF item >= 0 /\ item < n THEN Returned(modifiers[item + 1])
        ELSE IF item < 0 /\ item >= -n THEN Returned(modifiers[n + item + 1])
        ELSE Raised("IndexError")

ProgressionNames == {"base_attack_bonus", "fort_save", "ref_save", "will_save"}

\* Class.__init__ stores the four Progressions it is given.
Class_init(args) == [p \in ProgressionNames |-> Progression_init(args[p])]

\* ClassLevel.base_attack_bonus, fort_save, ref_save, will_save:
\*     return self.class_.<name>[self.level]
ClassLevel_property(class_, level, name) ==
    Progression_getitem(class_[name], level)

\* The usual tables of the rules: an attack bonus of 1, 3/4 or 1/2 per level
\* and a good (2 + level/2) or poor (level/3) save.
AttackTable(kind, n) ==
    [L \in 1..n |-> CASE kind = "full"   -> L
                      [] kind = "medium" -> (3 * L) \div 4
                      [] OTHER           -> L \div 2]

SaveTable(kind, n) ==
    [L \in 1..n |-> IF kind = "good" THEN 2 + (L \div 2) ELSE L \div 3]

InitClassLevel ==
    /\ \E n \in 1..MaxClassLevels :
         \E b \in {"full", "medium", "half"} :
           \E f \in {"good", "poor"}, r \in {"good", "poor"}, w \in {"good", "poor"} :
             /\ cl_args = [base_attack_bonus |-> AttackTable(b, n),
                           fort_save |-> SaveTable(f, n),
                           ref_save  |-> SaveTable(r, n),
                           will_save |-> SaveTable(w, n)]
             /\ cl_class = Class_init(cl_args)
             /\ cl_level \in 1..n
    /\ cl_read = NoResult

ReadClassLevel ==
    /\ OnlyClassLevel
    /\ \E name \in ProgressionNames :
           /\ cl_read' = [property |-> name,
                          result |-> ClassLevel_property(cl_class, cl_level, name)]
           /\ UNCHANGED <<cl_args, cl_class, cl_level>>

NextClassLevel == ReadClassLevel

IdleClassLevel ==
    /\ cl_args = <<>>
    /\ cl_class = <<>>
    /\ cl_level = 0
    /\ cl_read = NoResult

\* C3: at a held level L between 1 and the number of values n, each of the
\* four bonuses of a ClassLevel is the L-th value (counting from 1) given to
\* the corresponding Progression, and the read does not fail.
C3_ClassLevelReadsLthValue ==
    cl_read # NoResult
    => cl_read.result = Returned(cl_args[cl_read.property][cl_level])

----------------------------------------------------------------------------
(* AbilityType, Ability *)

\* The dataclass AbilityType(name, abbreviation=None); equal by fields.
AbilityType(name, abbreviation) == [name |-> name, abbreviation |-> abbreviation]

\* Ability.default_ability_type
default_ability_type == AbilityType("Natural", None)

AbilityTypes == {AbilityType("Supernatural", Some("Su")),
                 AbilityType("Extraordinary", Some("Ex"))}

AbilityNames == {"Stonecunning", "Stability"}
Descriptions == {"", "text"}
FeatureNames == {"search", "spot"}
FeatureValues == 1..MaxFeatureValue

\* class Ability(core.Aggregator, ignore={'name', 'ability_type', 'description'})
Ability_ignore == {"name", "ability_type", "description"}

\* core.Aggregator.__setattr__ as Ability inherits it: a name of the ignore
\* set is one of Ability's read-only properties (AttributeError: no setter);
\* any other name becomes an attribute and a tracked feature.  Ability
\* creates _features empty and only ever removes from it, while __repr__
\* and __eq__ read the features through it: the names are added by the
\* inherited assignment, which is where the features are tracked.
Aggregator_setattr(self, name, value) ==
    IF name \in Ability_ignore
    THEN [self |-> self, outcome |-> Raised("AttributeError")]
    ELSE [self |-> [self EXCEPT
                      !._features = @ \cup {name},
                      !.dict = [n \in DOMAIN @ \cup {name} |->
                                  IF n = name THEN value ELSE @[n]]],
          outcome |-> Returned(None)]

\* for feature, definition in features.items(): setattr(self, feature, definition)
RECURSIVE SetFeatures(_, _)
SetFeatures(self, features) ==
    IF DOMAIN features = {} THEN self
    ELSE LET f == CHOOSE f \in DOMAIN features : TRUE
             rest == [g \in DOMAIN features \ {f} |-> features[g]]
         IN  SetFeatures(Aggregator_setattr(self, f, features[f]).self, rest)

\* The type Ability.__init__ stores:
\*     if ability_type is None: self._ability_type = AbilityType('')
\*     else:                    self._ability_type = self.default_ability_type
Ability_init_type(ability_type) ==
    IF ability_type = None
    THEN AbilityType("", None)
    ELSE default_ability_type

\* Ability.__init__
Ability_init(args) ==
    SetFeatures([_name |-> args.name,
                 _ability_type |-> Ability_init_type(args.ability_type),
                 _description |-> args.description,
                 _features |-> {},
                 dict |-> <<>>],
                args.features)

\* A deletion that forgets the tracked set.
Ability_delattr_untracked(self, name) ==
    IF name \in DOMAIN self.dict
    THEN [self |-> [self EXCEPT !.dict = [n \in DOMAIN @ \ {name} |-> @[n]]],
          outcome |-> Returned(None)]
    ELSE [self |-> self, outcome |-> Raised("AttributeError")]

\* Ability.__delattr__:
\*     if name in self._features: self._features.remove(name)
\*     super().__delattr__(name)
\* where the deletion of an attribute the object does not hold, or of a
\* property without a deleter, raises AttributeError.
Ability_delattr(self, name) ==
    LET untracked == [self EXCEPT !._features = @ \ {name}]
    IN  IF name \in DOMAIN self.dict
        THEN [self |-> [untracked EXCEPT
                          !.dict = [n \in DOMAIN @ \ {name} |-> @[n]]],
              outcome |-> Returned(None)]
        ELSE [self |-> untracked, outcome |-> Raised("AttributeError")]

\* Ability.ability_type
Ability_ability_type(self) == self._ability_type

\* Ability.__eq__ for two Abilities.
Ability_eq(self, other) ==
    /\ self._name = other._name
    /\ self._ability_type = other._ability_type
    /\ self._description = other._description
    /\ self._features = other._features
    /\ \A a \in self._features : self.dict[a] = other.dict[a]

\* Ability.__repr__: the name=value parts it renders after the description.
Ability_repr_features(self) == {<<n, self.dict[n]>> : n \in self._features}

AbilityArgs ==
    [name : AbilityNames,
     ability_type : {None} \cup {Some(t) : t \in AbilityTypes},
     description : Descriptions,
     features : UNION {[F -> FeatureValues] : F \in SUBSET FeatureNames}]

NoOp == [op |-> "none"]

\* One Ability x, to assign to and delete from.
InitAbility ==
    /\ \E args \in AbilityArgs :
         /\ ab_args = [i \in {"x"} |-> args]
         /\ ab = [i \in {"x"} |-> Ability_init(args)]
    /\ ab_last = NoOp

\* Two Abilities x and y, to compare.
InitAbilityPair ==
    /\ \E ax \in AbilityArgs, ay \in AbilityArgs :
         /\ ab_args = [i \in {"x", "y"} |-> IF i = "x" THEN ax ELSE ay]
         /\ ab = [i \in {"x", "y"} |-> Ability_init(ab_args[i])]
    /\ ab_last = NoOp

\* setattr(ability, name, value)
SetAttr ==
    /\ OnlyAbility
    /\ \E i \in DOMAIN ab, name \in FeatureNames \cup Ability_ignore,
          value \in FeatureValues :
           LET r == Aggregator_setattr(ab[i], name, value)
           IN  /\ ab' = [ab EXCEPT ![i] = r.self]
               /\ ab_last' = [op |-> "setattr", name |-> name, outcome |-> r.outcome]
               /\ UNCHANGED ab_args

\* delattr(ability, name)
DelAttr ==
    /\ OnlyAbility
    /\ \E i \in DOMAIN ab, name \in FeatureNames \cup Ability_ignore :
           LET r == Ability_delattr(ab[i], name)
           IN  /\ ab' = [ab EXCEPT ![i] = r.self]
               /\ ab_last' = [op |-> "delattr", name |-> name, outcome |-> r.outcome]
               /\ UNCHANGED ab_args

\* x == y
Compare ==
    /\ DOMAIN ab = {"x", "y"}
    /\ ab_last' = [op |-> "eq", name |-> "",
                   outcome |-> Returned(Ability_eq(ab["x"], ab["y"]))]
    /\ UNCHANGED <<ab_args, ab>>
    /\ OnlyAbility

NextAbility == SetAttr \/ DelAttr

NextAbilityPair == Compare

IdleAbility ==
    /\ ab_args = <<>>
    /\ ab = <<>>
    /\ ab_last = NoOp

\* C4: two Abilities compare equal exactly when they were given the same
\* name, the same ability type, the same description and the same feature
\* names with equal values; and ability_type returns the type that was
\* passed to the constructor.
C4_EqualExactlyWhenSameFields ==
    ab_last.op = "eq"
    => /\ ab_last.outcome.value =
             (/\ ab_args["x"].name = ab_args["y"].name
              /\ ab_args["x"].ability_type = ab_args["y"].ability_type
              /\ ab_args["x"].description = ab_args["y"].description
              /\ ab_args["x"].features = ab_args["y"].features)
       /\ \A i \in DOMAIN ab :
             ab_args[i].ability_type # None
             => Some(Ability_ability_type(ab[i])) = ab_args[i].ability_type

\* C6: the tracked feature set of an Ability is exactly the set of feature
\* attributes the object holds, whatever was assigned or deleted; a deleted
\* feature is no longer tracked, rendered or compared; and name, ability_type
\* and description are never tracked.
C6_TrackedIsPresent ==
    \A i \in DOMAIN ab :
        /\ ab[i]._features = DOMAIN ab[i].dict
        /\ ab[i]._features \cap Ability_ignore = {}
        /\ {p[1] : p \in Ability_repr_features(ab[i])} = DOMAIN ab[i].dict
        /\ (ab_last.op = "delattr" /\ ab_last.outcome.outcome = "return")
           => ab_last.name \notin ab[i]._features

\* Built with search and spot, then search deleted: spot alone is tracked.
C6_Witness ==
    /\ DOMAIN ab = {"x"}
    /\ DOMAIN ab_args["x"].features = {"search", "spot"}
    /\ ab_last.op = "delattr"
    /\ ab_last.name = "search"
    /\ ab_last.outcome.outcome = "return"
    /\ ab["x"]._features = {"spot"}
    /\ DOMAIN ab["x"].dict = {"spot"}

----------------------------------------------------------------------------
(* Race: the saving throws *)

\* num.Modifier.__add__, __neg__ and __rmul__, on the numeric values.
Modifier_add(a, b) == a + b
Modifier_neg(a) == -a
Modifier_rmul(k, a) == k * a

SaveNames == {"fortitude", "reflex", "will"}

\* The attribute behind each save property (self._fortitude, ...).
SaveAttr(save) ==
    CASE save = "fortitude" -> "_fortitude"
      [] save = "reflex"    -> "_reflex"
      [] save = "will"      -> "_will"

Modifiers == (0 - MaxModifier)..MaxModifier

Put(attrs, name, value) ==
    [n \in DOMAIN attrs \cup {name} |-> IF n = name THEN value ELSE attrs[n]]

\* setattr(race, name, value): the setters of fortitude, reflex and will
\* store into _fortitude, _reflex and _will; saving_throws is a plain
\* attribute.
Race_setattr(attrs, name, value) ==
    IF name \in SaveNames
    THEN Put(attrs, SaveAttr(name), value)
    ELSE Put(attrs, name, value)

RECURSIVE Race_set_features(_, _)
Race_set_features(attrs, features) ==
    IF DOMAIN features = {} THEN attrs
    ELSE LET f == CHOOSE f \in DOMAIN features : TRUE
             rest == [g \in DOMAIN features \ {f} |-> features[g]]
         IN  Race_set_features(Race_setattr(attrs, f, features[f]), rest)

\* Race.__init__: the three save-specific Modifiers start as Modifier(), then
\* every keyword feature is assigned.
Race_init(features) ==
    Race_set_features([n \in {"_fortitude", "_reflex", "_will"} |-> Modifier(0)],
                      features)

\* del race.saving_throws
Race_delattr(attrs, name) == [n \in DOMAIN attrs \ {name} |-> attrs[n]]

\* A save that leaves the race-wide Modifier out.
Race_save_bonus_specific(attrs, name) ==
    IF name \in DOMAIN attrs THEN attrs[name] ELSE Modifier(0)

\* Race._save_bonus: each operand is Modifier() when the attribute is missing.
Race_save_bonus(attrs, name) ==
    LET specific == IF name \in DOMAIN attrs THEN attrs[name] ELSE Modifier(0)
        generic  == IF "saving_throws" \in DOMAIN attrs
                    THEN attrs["saving_throws"]
                    ELSE Modifier(0)
    IN  Modifier_add(generic, specific)

\* Race.fortitude, Race.reflex, Race.will (the getters)
Race_save(attrs, save) == Race_save_bonus(attrs, SaveAttr(save))

InitRace ==
    /\ \E F \in SUBSET {"saving_throws", "fortitude"} :
         \E features \in [F -> Modifiers] :
            race_attrs = Race_init(features)
    /\ race_read = NoResult

SetSavingThrows ==
    /\ OnlyRace
    /\ \E m \in Modifiers :
           /\ race_attrs' = Race_setattr(race_attrs, "saving_throws", m)
           /\ race_read' = NoResult

DelSavingThrows ==
    /\ "saving_throws" \in DOMAIN race_attrs
    /\ race_attrs' = Race_delattr(race_attrs, "saving_throws")
    /\ race_read' = NoResult
    /\ OnlyRace

SetSave ==
    /\ OnlyRace
    /\ \E save \in SaveNames, m \in Modifiers :
           /\ race_attrs' = Race_setattr(race_attrs, save, m)
           /\ race_read' = NoResult

ReadSave ==
    /\ OnlyRace
    /\ \E save \in SaveNames :
           /\ race_read' = [save |-> save, value |-> Race_save(race_attrs, save)]
           /\ UNCHANGED race_attrs

NextRace == SetSavingThrows \/ DelSavingThrows \/ SetSave \/ ReadSave

IdleRace ==
    /\ race_attrs = <<>>
    /\ race_read = NoResult

\* The Modifier an attribute of the Race holds now, zero when it holds none.
Current(name) == IF name \in DOMAIN race_attrs THEN race_attrs[name] ELSE 0

\* C5: whatever was assigned or deleted before, a read of fortitude, reflex
\* or will is the current saving_throws Modifier (zero when there is none)
\* plus the current Modifier of that save (zero when none was set).
C5_SaveIsGenericPlusSpecific ==
    /\ race_read # NoResult
       => race_read.value = Current("saving_throws")
                            + Current(SaveAttr(race_read.save))
    /\ \A save \in SaveNames :
         Race_save(race_attrs, save) = Current("saving_throws")
                                       + Current(SaveAttr(save))

\* saving_throws and the reflex Modifier both set and non-zero, reflex read.
C5_Witness ==
    /\ race_read # NoResult
    /\ race_read.save = "reflex"
    /\ "saving_throws" \in DOMAIN race_attrs
    /\ race_attrs["saving_throws"] = 2
    /\ race_attrs["_reflex"] = -1
    /\ race_read.value = 1

----------------------------------------------------------------------------
(* AbilityScore *)

\* def __init__(self, score: int = 10)
DefaultScore == 10

Scores == (DefaultScore - ScoreSpan)..(DefaultScore + ScoreSpan)
Deltas == (0 - MaxDelta)..MaxDelta

\* AbilityScore.__init__
AbilityScore_init(score) == IF score = None THEN DefaultScore ELSE score[1]

\* A modifier that rounds toward zero.
AbilityScore_modifier_truncated(score) ==
    IF score >= 10 THEN (score - 10) \div 2 ELSE 0 - ((10 - score) \div 2)

\* AbilityScore.modifier: (self.score - 10) // 2
AbilityScore_modifier(score) == Modifier((score - 10) \div 2)

\* An addition that works in place.
AbilityScore_add_in_place(heap, self, other) ==
    [heap |-> [heap EXCEPT ![self] = @ + other], result |-> self]

\* AbilityScore.__add__ (and __radd__, the same function): a new object.
AbilityScore_add(heap, self, other) ==
    [heap |-> Append(heap, heap[self] + other), result |-> Len(heap) + 1]

\* AbilityScore.__iadd__: self.score += value; result = self
AbilityScore_iadd(heap, self, other) ==
    [heap |-> [heap EXCEPT ![self] = @ + other], result |-> self]

InitScore ==
    /\ as_ctor \in {None} \cup {Some(s) : s \in Scores}
    /\ as_heap = <<AbilityScore_init(as_ctor)>>
    /\ as_a = 1
    /\ as_b = 1
    /\ as_last = NoOp

Added(form, d, r) ==
    /\ as_heap' = r.heap
    /\ as_last' = [op |-> form, operand |-> as_a, before |-> as_heap[as_a],
                   delta |-> d, result |-> r.result]

\* c = a + d
Add ==
    /\ OnlyScore
    /\ \E d \in Deltas :
           /\ Len(as_heap) < MaxObjects
           /\ as_heap[as_a] + d \in Scores
           /\ Added("add", d, AbilityScore_add(as_heap, as_a, d))
           /\ UNCHANGED <<as_ctor, as_a, as_b>>

\* c = d + a
RAdd ==
    /\ OnlyScore
    /\ \E d \in Deltas :
           /\ Len(as_heap) < MaxObjects
           /\ as_heap[as_a] + d \in Scores
           /\ Added("radd", d, AbilityScore_add(as_heap, as_a, d))
           /\ UNCHANGED <<as_ctor, as_a, as_b>>

\* a += d: a is rebound to what __iadd__ returns.
IAdd ==
    /\ OnlyScore
    /\ \E d \in Deltas :
           /\ as_heap[as_a] + d \in Scores
           /\ LET r == AbilityScore_iadd(as_heap, as_a, d)
              IN  /\ Added("iadd", d, r)
                  /\ as_a' = r.result
           /\ UNCHANGED <<as_ctor, as_b>>

NextScore == Add \/ RAdd \/ IAdd

IdleScore ==
    /\ as_ctor = None
    /\ as_heap = <<>>
    /\ as_a = 0
    /\ as_b = 0
    /\ as_last = NoOp

\* C7: the modifier of every AbilityScore is floor((score - 10) / 2), rounded
\* toward negative infinity also for odd scores below 10 and for negative
\* scores; an AbilityScore built with no argument has score 10, modifier 0.
C7_ModifierIsFloor ==
    /\ \A i \in DOMAIN as_heap :
         LET score == as_heap[i]
             m == AbilityScore_modifier(score)
         IN  /\ 2 * m <= score - 10
             /\ score - 10 < 2 * m + 2
             /\ score = 10 => m = 0
             /\ score = 18 => m = 4
             /\ score = 7  => m = -2
             /\ score = 9  => m = -1
    /\ (as_ctor = None /\ as_last = NoOp)
       => /\ as_heap[as_a] = 10
          /\ AbilityScore_modifier(as_heap[as_a]) = 0

\* A negative odd score is held: its modifier is rounded down, not to zero.
C7_Witness ==
    \E i \in DOMAIN as_heap :
        /\ as_heap[i] = -1
        /\ AbilityScore_modifier(as_heap[i]) = -6

\* C10 as stated: every form of addition (a + d, d + a, a += d) yields a
\* new AbilityScore of score s + d and leaves the operand, and so every other
\* reference to it, at score s.
C10_EveryAdditionLeavesOperand ==
    as_last.op # "none"
    => /\ as_heap[as_last.result] = as_last.before + as_last.delta
       /\ as_heap[as_last.operand] = as_last.before
       /\ as_heap[as_b] = as_last.before

\* C10, amended: a + d and d + a yield a new AbilityScore of score s + d and
\* leave the operand at s; a += d changes the operand itself to s + d and
\* yields that same object, so every other reference to it observes s + d.
C10_AdditionNewInPlaceMutates ==
    /\ as_last.op \in {"add", "radd"}
       => /\ as_heap[as_last.result] = as_last.before + as_last.delta
          /\ as_last.result # as_last.operand
          /\ as_heap[as_last.operand] = as_last.before
          /\ as_heap[as_b] = as_last.before
    /\ as_last.op = "iadd"
       => /\ as_last.result = as_last.operand
          /\ as_a = as_last.operand
          /\ as_heap[as_last.operand] = as_last.before + as_last.delta
          /\ as_heap[as_b] = as_last.before + as_last.delta

\* After a += 2 on a score of 10 the other reference observes 12; after a
\* later c = a + 1 it still observes 12 and c is a new object of score 13.
C10_Witness ==
    /\ as_last.op = "add"
    /\ as_last.before = 12
    /\ as_last.delta = 1
    /\ as_ctor = None
    /\ as_heap[as_b] = 12
    /\ as_heap[as_last.result] = 13

----------------------------------------------------------------------------
(* Size *)

SizeNames == {"Small", "Medium", "Large"}
Scales == (0 - MaxScale)..MaxScale
SizeProperties == {"attack", "armor_class", "grapple", "hide"}

\* A grapple modifier with the sign of the hide modifier.
Size_grapple_negated(modifier) == Modifier_rmul(-4, modifier)

\* Size.attack, Size.armor_class: -self._modifier
Size_attack(modifier) == Modifier_neg(modifier)
Size_armor_class(modifier) == Modifier_neg(modifier)
\* Size.grapple: 4 * self._modifier
Size_grapple(modifier) == Modifier_rmul(4, modifier)
\* Size.hide: -4 * self._modifier
Size_hide(modifier) == Modifier_rmul(-4, modifier)

Size_property(modifier, name) ==
    CASE name = "attack"      -> Size_attack(modifier)
      [] name = "armor_class" -> Size_armor_class(modifier)
      [] name = "grapple"     -> Size_grapple(modifier)
      [] name = "hide"        -> Size_hide(modifier)

\* Size.__init__
InitSize ==
    /\ size_args \in [name : SizeNames, modifier_value : Scales]
    /\ size_name = size_args.name
    /\ size_modifier = Modifier(size_args.modifier_value)
    /\ size_read = NoResult

ReadSize ==
    /\ OnlySize
    /\ \E name \in SizeProperties :
           /\ size_read' = [property |-> name,
                            value |-> Size_property(size_modifier, name)]
           /\ UNCHANGED <<size_args, size_name, size_modifier>>

NextSize == ReadSize

IdleSize ==
    /\ size_args = <<>>
    /\ size_name = ""
    /\ size_modifier = 0
    /\ size_read = NoResult

\* C8: for a Size of scale v, attack and armor_class are -v, grapple is 4v
\* and hide is -4v, and reading them leaves its name and scale as given.
C8_SizeModifiers ==
    size_read # NoResult
    => LET v == size_args.modifier_value
       IN  /\ size_read.property = "attack"      => size_read.value = 0 - v
           /\ size_read.property = "armor_class" => size_read.value = 0 - v
           /\ size_read.property = "grapple"     => size_read.value = 4 * v
           /\ size_read.property = "hide"        => size_read.value = 0 - (4 * v)
           /\ size_name = size_args.name
           /\ size_modifier = v

\* Size("Large", -1): grapple read as -4.
C8_Witness ==
    /\ size_args = [name |-> "Large", modifier_value |-> -1]
    /\ size_read = [property |-> "grapple", value |-> -4]

----------------------------------------------------------------------------
(* Character *)

Classes == {"Fighter", "Wizard", "Rogue"}
Mappings == UNION {[S -> 0..MaxHeld] : S \in SUBSET Classes}

\* A Counter that is the caller's mapping itself.
Counter_aliased(heap, mapping) == [heap |-> heap, ref |-> mapping]

\* collections.Counter(mapping): a new mapping with the same contents.
Counter(heap, mapping) ==
    [heap |-> Append(heap, heap[mapping]), ref |-> Len(heap) + 1]

\* Character.__init__: self.classes = Counter(classes)
Character_init(heap, classes) == Counter(heap, classes)

\* Character.level: len(self.classes)
Character_level(heap, classes) == Cardinality(DOMAIN heap[classes])

\* The caller's mapping is object 1 of the heap.
InitCharacter ==
    /\ ch_args \in Mappings
    /\ LET c == Character_init(<<ch_args>>, 1)
       IN  /\ ch_heap = c.heap
           /\ ch_classes = c.ref

\* classes[c] = n, by the caller, after the construction
CallerSetItem ==
    /\ OnlyCharacter
    /\ \E c \in Classes, n \in 0..MaxHeld :
           /\ ch_heap' = [ch_heap EXCEPT ![1] = Put(@, c, n)]
           /\ UNCHANGED <<ch_args, ch_classes>>

\* del classes[c], by the caller, after the construction
CallerDelItem ==
    /\ OnlyCharacter
    /\ \E c \in DOMAIN ch_heap[1] :
           /\ ch_heap' = [ch_heap EXCEPT ![1] = [k \in DOMAIN @ \ {c} |-> @[k]]]
           /\ UNCHANGED <<ch_args, ch_classes>>

NextCharacter == CallerSetItem \/ CallerDelItem

IdleCharacter ==
    /\ ch_args = <<>>
    /\ ch_heap = <<>>
    /\ ch_classes = 0

\* C9: the level of a Character is the number of distinct Classes of the
\* mapping it was constructed from, whatever levels are held in each and
\* whatever the caller does to that mapping afterwards.
C9_LevelCountsClasses ==
    Character_level(ch_heap, ch_classes) = Cardinality(DOMAIN ch_args)

\* Built from {Fighter: 3, Wizard: 2}; the caller then added Rogue to the
\* mapping: the level is still 2.
C9_Witness ==
    /\ ch_args = [c \in {"Fighter", "Wizard"} |-> IF c = "Fighter" THEN 3 ELSE 2]
    /\ DOMAIN ch_heap[1] = Classes
    /\ Character_level(ch_heap, ch_classes) = 2

----------------------------------------------------------------------------
(* The legacy catalog (dnd35/srd.py): a module whose statements run once,  *)
(* in order, each binding a name to an object built by the legacy concept  *)
(* primitives (dnd35.concepts).                                            *)

\* dnd35.concepts.Size(modifier_value): a bare magnitude.
Legacy_Size(modifier_value) == [magnitude |-> modifier_value]

\* dnd35.concepts.Special(name, **named_modifiers)
Legacy_Special(name, modifiers) == [special |-> name, modifiers |-> modifiers]

\* dnd35.concepts.Race(name, size, speed, ..., favored_class, **features)
Legacy_Race(name, size, speed, favored_class, specials) ==
    [name |-> name, size |-> size, speed |-> speed,
     favored_class |-> favored_class, specials |-> specials]

\* The sizes with large mistyped as +1.
srd_sizes_mistyped ==
    << [name |-> "fine",       kind |-> "size", value |-> 8],
       [name |-> "diminutive", kind |-> "size", value |-> 4],
       [name |-> "tiny",       kind |-> "size", value |-> 2],
       [name |-> "small",      kind |-> "size", value |-> 1],
       [name |-> "medium",     kind |-> "size", value |-> 0],
       [name |-> "large",      kind |-> "size", value |-> 1],
       [name |-> "huge",       kind |-> "size", value |-> -2],
       [name |-> "gargantuan", kind |-> "size", value |-> -4],
       [name |-> "colossal",   kind |-> "size", value |-> -8] >>

\* # Sizes: fine = concepts.Size(+8) ... colossal = concepts.Size(-8)
srd_sizes ==
    << [name |-> "fine",       kind |-> "size", value |-> 8],
       [name |-> "diminutive", kind |-> "size", value |-> 4],
       [name |-> "tiny",       kind |-> "size", value |-> 2],
       [name |-> "small",      kind |-> "size", value |-> 1],
       [name |-> "medium",     kind |-> "size", value |-> 0],
       [name |-> "large",      kind |-> "size", value |-> -1],
       [name |-> "huge",       kind |-> "size", value |-> -2],
       [name |-> "gargantuan", kind |-> "size", value |-> -4],
       [name |-> "colossal",   kind |-> "size", value |-> -8] >>

\* # Special: darkvision, stonecunning, stability, low_light_vision
srd_specials ==
    << [name |-> "darkvision", kind |-> "special", title |-> "Darkvision",
        modifiers |-> {}],
       [name |-> "stonecunning", kind |-> "special", title |-> "Stonecunning",
        modifiers |-> {"search"}],
       [name |-> "stability", kind |-> "special", title |-> "Stability",
        modifiers |-> {"STR"}],
       [name |-> "low_light_vision", kind |-> "special",
        title |-> "Low-Light Vision", modifiers |-> {}] >>

\* An argument that is a name of the module, such as size=medium.
srd_name(name) == [kind |-> "name", name |-> name]

\* An argument built in place, such as concepts.Special('Weapon Familiarity').
srd_inline_special(title, modifiers) ==
    [kind |-> "special", title |-> title, modifiers |-> modifiers]

\* # Races: human, dwarf, elf.  size names an earlier object; specials are
\* the keyword arguments whose value is a Special, by keyword.
srd_races ==
    << [name |-> "human", kind |-> "race", title |-> "Human",
        size |-> srd_name("medium"), speed |-> 30, favored_class |-> None,
        specials |-> <<>>],
       [name |-> "dwarf", kind |-> "race", title |-> "Dwarf",
        size |-> srd_name("medium"), speed |-> 20,
        favored_class |-> Some("Fighter"),
        specials |->
          [darkvision |-> srd_name("darkvision"),
           stonecunning |-> srd_name("stonecunning"),
           weapon_familiarity |-> srd_inline_special("Weapon Familiarity", {}),
           stability |-> srd_name("stability")]],
       [name |-> "elf", kind |-> "race", title |-> "Elf",
        size |-> srd_name("medium"), speed |-> 30,
        favored_class |-> Some("Wizard"),
        specials |-> [low_light_vision |-> srd_name("low_light_vision")]] >>

\* The statements of the module, in the order they run.
srd_statements == srd_sizes \o srd_specials \o srd_races

\* The value of an argument: the object a name is bound to in the module
\* so far, or the Special built in place.
srd_argument(ns, arg) ==
    IF arg.kind = "name"
    THEN ns[arg.name]
    ELSE Legacy_Special(arg.title, arg.modifiers)

\* The object a statement builds.
srd_evaluate(ns, st) ==
    CASE st.kind = "size"    -> Legacy_Size(st.value)
      [] st.kind = "special" -> Legacy_Special(st.title, st.modifiers)
      [] st.kind = "race"    ->
            Legacy_Race(st.title, srd_argument(ns, st.size), st.speed,
                        st.favored_class,
                        [k \in DOMAIN st.specials |->
                            srd_argument(ns, st.specials[k])])

\* Before the module's first statement.
InitCatalog ==
    /\ srd_pc = 0
    /\ srd_ns = <<>>
    /\ srd_read = NoResult

\* The next statement of the module: name = concepts.<Type>(...)
Load ==
    /\ srd_pc < Len(srd_statements)
    /\ LET st == srd_statements[srd_pc + 1]
       IN  srd_ns' = Put(srd_ns, st.name, srd_evaluate(srd_ns, st))
    /\ srd_pc' = srd_pc + 1
    /\ UNCHANGED srd_read
    /\ OnlyCatalog

\* <size>.magnitude, of a size the module has defined
ReadMagnitude ==
    /\ OnlyCatalog
    /\ \E n \in DOMAIN srd_ns :
           /\ "magnitude" \in DOMAIN srd_ns[n]
           /\ srd_read' = [name |-> n, attribute |-> "magnitude",
                           value |-> srd_ns[n].magnitude]
           /\ UNCHANGED <<srd_pc, srd_ns>>

\* <race>.size, of a race the module has defined
ReadRaceSize ==
    /\ OnlyCatalog
    /\ \E n \in DOMAIN srd_ns :
           /\ "size" \in DOMAIN srd_ns[n]
           /\ srd_read' = [name |-> n, attribute |-> "size",
                           value |-> srd_ns[n].size]
           /\ UNCHANGED <<srd_pc, srd_ns>>

NextCatalog == Load \/ ReadMagnitude \/ ReadRaceSize

IdleCatalog ==
    /\ srd_pc = 0
    /\ srd_ns = <<>>
    /\ srd_read = NoResult

\* C11: once the legacy catalog is loaded, the sizes Fine, Diminutive, Tiny,
\* Small, Medium, Large, Huge, Gargantuan, Colossal have the magnitudes +8,
\* +4, +2, +1, 0, -1, -2, -4, -8 (strictly decreasing, Fine 8, Medium 0,
\* Colossal -8), the races Human, Dwarf and Elf all have the size Medium,
\* and a magnitude read off any size is the one of that list.
C11_CatalogSizes ==
    LET order == <<"fine", "diminutive", "tiny", "small", "medium", "large",
                   "huge", "gargantuan", "colossal">>
        magnitudes == <<8, 4, 2, 1, 0, -1, -2, -4, -8>>
    IN  /\ srd_pc = Len(srd_statements)
           => /\ \A i \in 1..9 : srd_ns[order[i]].magnitude = magnitudes[i]
              /\ \A i \in 1..8 : srd_ns[order[i]].magnitude
                                    > srd_ns[order[i + 1]].magnitude
              /\ \A r \in {"human", "dwarf", "elf"} :
                    /\ srd_ns[r].size = srd_ns["medium"]
                    /\ srd_ns[r].size.magnitude = 0
        /\ (srd_read # NoResult /\ srd_read.attribute = "magnitude")
           => \E i \in 1..9 : /\ srd_read.name = order[i]
                               /\ srd_read.value = magnitudes[i]
        /\ (srd_read # NoResult /\ srd_read.attribute = "size")
           => srd_read.value.magnitude = 0

\* The whole catalog is loaded and the size of the elf was read: Medium.
C11_Witness ==
    /\ srd_pc = Len(srd_statements)
    /\ srd_ns["colossal"].magnitude = -8
    /\ srd_read # NoResult
    /\ srd_read.name = "elf"
    /\ srd_read.attribute = "size"
    /\ srd_read.value = srd_ns["medium"]

----------------------------------------------------------------------------
(* The specifications: one object at a time, the others idle. *)

InitFeatureAlone ==
    /\ InitFeature
    /\ IdleClassLevel
    /\ IdleAbility
    /\ IdleRace
    /\ IdleScore
    /\ IdleSize
    /\ IdleCharacter
    /\ IdleCatalog

SpecFeature == InitFeatureAlone /\ [][NextFeature]_vars

InitClassLevelAlone ==
    /\ InitClassLevel
    /\ IdleFeature
    /\ IdleAbility
    /\ IdleRace
    /\ IdleScore
    /\ IdleSize
    /\ IdleCharacter
    /\ IdleCatalog

SpecClassLevel == InitClassLevelAlone /\ [][NextClassLevel]_vars

InitAbilityAlone ==
    /\ InitAbility
    /\ IdleFeature
    /\ IdleClassLevel
    /\ IdleRace
    /\ IdleScore
    /\ IdleSize
    /\ IdleCharacter
    /\ IdleCatalog

SpecAbility == InitAbilityAlone /\ [][NextAbility]_vars

InitRaceAlone ==
    /\ InitRace
    /\ IdleFeature
    /\ IdleClassLevel
    /\ IdleAbility
    /\ IdleScore
    /\ IdleSize
    /\ IdleCharacter
    /\ IdleCatalog

SpecRace == InitRaceAlone /\ [][NextRace]_vars

InitScoreAlone ==
    /\ InitScore
    /\ IdleFeature
    /\ IdleClassLevel
    /\ IdleAbility
    /\ IdleRace
    /\ IdleSize
    /\ IdleCharacter
    /\ IdleCatalog

SpecScore == InitScoreAlone /\ [][NextScore]_vars

InitSizeAlone ==
    /\ InitSize
    /\ IdleFeature
    /\ IdleClassLevel
    /\ IdleAbility
    /\ IdleRace
    /\ IdleScore
    /\ IdleCharacter
    /\ IdleCatalog

SpecSize == InitSizeAlone /\ [][NextSize]_vars

InitCharacterAlone ==
    /\ InitCharacter
    /\ IdleFeature
    /\ IdleClassLevel
    /\ IdleAbility
    /\ IdleRace
    /\ IdleScore
    /\ IdleSize
    /\ IdleCatalog

SpecCharacter == InitCharacterAlone /\ [][NextCharacter]_vars

InitAbilityPairAlone ==
    /\ InitAbilityPair
    /\ IdleFeature
    /\ IdleClassLevel
    /\ IdleRace
    /\ IdleScore
    /\ IdleSize
    /\ IdleCharacter
    /\ IdleCatalog

SpecAbilityPair == InitAbilityPairAlone /\ [][NextAbilityPair]_vars

InitCatalogAlone ==
    /\ InitCatalog
    /\ IdleFeature
    /\ IdleClassLevel
    /\ IdleAbility
    /\ IdleRace
    /\ IdleScore
    /\ IdleSize
    /\ IdleCharacter

SpecCatalog == InitCatalogAlone /\ [][NextCatalog]_vars

====
